---- MODULE Spec2Model ----
(***************************************************************************)
(* Ordered-collection maintenance of the project-management API: the       *)
(* sequence of project states (kanban columns) and the sequence_id of      *)
(* issues, as the request handlers of controllers/v1 maintain them in the  *)
(* relational store.                                                       *)
(*                                                                         *)
(* A table is a sequence of rows; the id of a row is its index.  Rows are  *)
(* never removed physically: the handlers soft-delete (deleted_at).        *)
(* deleted_at is a *time.Time in the handlers; only "IS NULL" is ever      *)
(* tested, so it is modelled as a boolean (TRUE = set).                    *)
(***************************************************************************)
EXTENDS Integers, Sequences, FiniteSets, TLC

\* Bounds of the model.
MaxStates == 3
MaxIssues == 3
MaxList == 2
\* Rows per table in the runs that serve every handler (SpecAll).
MaxAllStates == 2
MaxAllIssues == 2
\* Rows of project_members, operations of a batch, emails of an operation.
MaxMembers == 2
MaxOperations == 2
MaxEmails == 1
MaxEntries == 2
MaxDate == 3
MaxTimeIssues == 1

\* Parent scopes (project ids) and the workers that serve requests.
Projects == {"P", "Q"}
Workers == {"w1", "w2"}

VARIABLES
    states,   \* table project_states: rows [project_id, sequence, deleted_at, name]
    issues,   \* table issues: rows [project_id, sequence_id, deleted_at, state_id]
    req,      \* the request served last
    resp,     \* the response sent last
    pc,       \* per worker: the position inside a handler (interleaved runs)
    local,    \* per worker: the handler's local variables
    saved,    \* ids of the project_states rows the last request issued a Save for
    done,     \* the last request: Commit and Rollback calls made, responses sent
    members,  \* table project_members: rows [project_id, email, role]
    entries,  \* table time_entries: rows [project_id, issue_id, date]
    listed    \* the ids ListProjectStates returned last, in their order

vars == <<states, issues, req, resp, pc, local, saved, done, members, entries, listed>>

NoReq == [op |-> "none", project_id |-> "P", id |-> 0, list |-> <<>>, authorized |-> FALSE]
NoResp == [status |-> 0, id |-> 0]
NoLocal == [op |-> "none", project_id |-> "P", state_id |-> 0, read |-> 0]

StateIds == 1..MaxStates
IssueIds == 1..MaxIssues
StageSequences == UNION {[1..n -> StateIds] : n \in 0..MaxList}

\* Names of project states: req.Name of CreateProjectState is "new",
\* UpdateProjectStateByID renames to one of Names.
Names == {"new", "renamed"}

----------------------------------------------------------------------------
\* Queries of the handlers (the WHERE clauses), evaluated on a table.

\* The lookup without "deleted_at IS NULL".
StateOfAnyRow(tbl, id, p) ==
    /\ id \in DOMAIN tbl
    /\ tbl[id].project_id = p

\* The lookup without "project_id = ?".
LiveStateOfAnyProject(tbl, id, p) ==
    /\ id \in DOMAIN tbl
    /\ ~tbl[id].deleted_at

\* "id = ? AND project_id = ? AND deleted_at IS NULL" on project_states
LiveStateOf(tbl, id, p) ==
    /\ id \in DOMAIN tbl
    /\ tbl[id].project_id = p
    /\ ~tbl[id].deleted_at

\* The remaining states taken without "project_id = ?".
LiveStatesOfAllProjects(tbl, p) == {i \in DOMAIN tbl : ~tbl[i].deleted_at}

\* "project_id = ? AND deleted_at IS NULL" on project_states
LiveStates(tbl, p) == {i \in DOMAIN tbl : tbl[i].project_id = p /\ ~tbl[i].deleted_at}

\* "id = ? AND deleted_at is NULL AND project_id = ?" on issues
LiveIssueOf(tbl, id, p) ==
    /\ id \in DOMAIN tbl
    /\ tbl[id].project_id = p
    /\ ~tbl[id].deleted_at

\* "project_id = ? AND deleted_at IS NULL" on issues
LiveIssues(tbl, p) == {i \in DOMAIN tbl : tbl[i].project_id = p /\ ~tbl[i].deleted_at}

SetMax(S) == IF S = {} THEN 0 ELSE CHOOSE m \in S : \A x \in S : x <= m

\* Transaction end: Commit makes the transaction's table the stored one,
\* Rollback keeps the stored one.
Commit(stored, tx) == tx

\* A rollback that is not performed: the writes made so far stay.
RollbackKeepsWrites(stored, tx) == tx

Rollback(stored, tx) == stored

\* The request: the handler, its path parameters and body, and whether the
\* caller passes the role check (utils.IsUserPartOfRole, utils.CanUserCreateIssue).
Request(op, p, id, list, authorized) ==
    [op |-> op, project_id |-> p, id |-> id, list |-> list, authorized |-> authorized]

\* The response: the HTTP status and the id of the row it reports (0: none).
Respond(status, id) == [status |-> status, id |-> id]

\* What a handler did with its transaction and its client: ended counts the
\* tx.Commit and tx.Rollback calls, sent the responses written.
Done(ended, sent) == [ended |-> ended, sent |-> sent]

----------------------------------------------------------------------------
\* CreateProjectState: the sequence of a new state.

\* Count(project_id = ?): every row of the project, soft-deleted ones too.
ExistingCount(tbl, p) == Cardinality({i \in DOMAIN tbl : tbl[i].project_id = p})

NewProjectState(p, existingCount) ==
    [project_id |-> p, sequence |-> existingCount + 1, deleted_at |-> FALSE, name |-> "new"]

CreateProjectState(p, authorized) ==
    /\ Len(states) < MaxStates
    /\ req' = Request("CreateProjectState", p, 0, <<>>, authorized)
    /\ IF ~authorized
       THEN /\ resp' = Respond(404, 0)
            /\ done' = Done(0, 1)
            /\ UNCHANGED states
       ELSE LET projectState == NewProjectState(p, ExistingCount(states, p))
                tx == Append(states, projectState)
            IN /\ states' = Commit(states, tx)
               /\ resp' = Respond(201, Len(tx))
               /\ done' = Done(1, 1)
    /\ saved' = {}
    /\ UNCHANGED <<issues, pc, local, members, entries, listed>>

----------------------------------------------------------------------------
\* DeleteProjectStateByID: soft delete, then reset of the remaining sequences.

\* The count taken over the deleted issues in place of the non-deleted ones.
IssueCountOfDeleted(tbl, sid) == Cardinality({i \in DOMAIN tbl : tbl[i].state_id = sid /\ tbl[i].deleted_at})

\* Count(state_id = ? AND deleted_at IS NULL) on issues
IssueCount(tbl, sid) == Cardinality({i \in DOMAIN tbl : tbl[i].state_id = sid /\ ~tbl[i].deleted_at})

SoftDeleteState(tx, sid) == [tx EXCEPT ![sid].deleted_at = TRUE]

\* Order("sequence DESC") in place of ASC.
OrderBySequenceDesc(tx, S) ==
    {o \in [1..Cardinality(S) -> S] :
        /\ \A i, j \in DOMAIN o : i # j => o[i] # o[j]
        /\ \A i, j \in DOMAIN o : i < j => tx[o[i]].sequence >= tx[o[j]].sequence}

\* Order("sequence ASC") over the rows S: every order the store may return
\* (rows of equal sequence come in any order).
OrderBySequence(tx, S) ==
    {o \in [1..Cardinality(S) -> S] :
        /\ \A i, j \in DOMAIN o : i # j => o[i] # o[j]
        /\ \A i, j \in DOMAIN o : i < j => tx[o[i]].sequence <= tx[o[j]].sequence}

\* state.Sequence = i in place of i + 1.
ResetSequenceFromZero(tx, remainingStates) ==
    [id \in DOMAIN tx |->
        IF \E k \in DOMAIN remainingStates : remainingStates[k] = id
        THEN [tx[id] EXCEPT !.sequence = (CHOOSE k \in DOMAIN remainingStates : remainingStates[k] = id) - 1]
        ELSE tx[id]]

\* for i, state := range remainingStates { state.Sequence = i + 1; Save }
ResetSequence(tx, remainingStates) ==
    [id \in DOMAIN tx |->
        IF \E k \in DOMAIN remainingStates : remainingStates[k] = id
        THEN [tx[id] EXCEPT !.sequence = CHOOSE k \in DOMAIN remainingStates : remainingStates[k] = id]
        ELSE tx[id]]

\* The compact-after-removal step: every table it may produce.
CompactAfterRemoval(tx, p) ==
    {ResetSequence(tx, o) : o \in OrderBySequence(tx, LiveStates(tx, p))}

\* A reset loop that saves a state only when its position differs from its
\* stored sequence.
SavedByResetChangedOnly(tx, p) ==
    {i \in LiveStates(tx, p) :
        tx[i].sequence # 1 + Cardinality({j \in LiveStates(tx, p) : tx[j].sequence < tx[i].sequence})}

\* The rows the reset loop saves: tx.Save(&state) for every state of
\* remainingStates, whatever its stored sequence.
SavedByReset(tx, p) == LiveStates(tx, p)

DeleteProjectStateByID(p, sid, authorized) ==
    /\ req' = Request("DeleteProjectStateByID", p, sid, <<>>, authorized)
    /\ IF ~authorized
       THEN /\ resp' = Respond(404, 0)
            /\ done' = Done(0, 1)
            /\ saved' = {}
            /\ UNCHANGED states
       ELSE IF ~LiveStateOf(states, sid, p)
       THEN /\ resp' = Respond(404, 0)
            /\ done' = Done(1, 1)
            /\ saved' = {}
            /\ states' = Rollback(states, states)
       ELSE IF IssueCount(issues, sid) > 0
       THEN /\ resp' = Respond(409, 0)
            /\ done' = Done(1, 1)
            /\ saved' = {}
            /\ states' = Rollback(states, states)
       ELSE /\ \E tx \in CompactAfterRemoval(SoftDeleteState(states, sid), p) :
                  states' = Commit(states, tx)
            /\ saved' = {sid} \cup SavedByReset(SoftDeleteState(states, sid), p)
            /\ resp' = Respond(204, sid)
            /\ done' = Done(1, 1)
    /\ UNCHANGED <<issues, pc, local, members, entries, listed>>

----------------------------------------------------------------------------
\* UpdateProjectStatesSequence: explicit reorder.

\* The loop over req.StageSequence from position k on (k = index + 1):
\* "id = ? AND project_id = ?" fetches the row, Sequence = index + 1 is saved.
\* Yields the status the loop ends with and the transaction's table.
RECURSIVE StageSequenceLoop(_, _, _, _)
StageSequenceLoop(tx, p, list, k) ==
    IF k > Len(list)
    THEN [status |-> 200, tx |-> tx]
    ELSE IF ~(list[k] \in DOMAIN tx /\ tx[list[k]].project_id = p)
    THEN [status |-> 404, tx |-> tx]
    ELSE StageSequenceLoop([tx EXCEPT ![list[k]].sequence = k], p, list, k + 1)

\* The rows the loop saves: those of the positions before the first id
\* the fetch does not find.
StageSequenceSaved(tx, p, list) ==
    {list[k] : k \in {n \in DOMAIN list :
                        \A m \in 1..n : list[m] \in DOMAIN tx /\ tx[list[m]].project_id = p}}

UpdateProjectStatesSequence(p, list, authorized) ==
    /\ req' = Request("UpdateProjectStatesSequence", p, 0, list, authorized)
    /\ IF ~authorized
       THEN /\ resp' = Respond(404, 0)
            /\ done' = Done(0, 1)
            /\ saved' = {}
            /\ UNCHANGED states
       ELSE LET r == StageSequenceLoop(states, p, list, 1)
            IN /\ resp' = Respond(r.status, 0)
               /\ done' = Done(1, 1)
               /\ saved' = StageSequenceSaved(states, p, list)
               /\ states' = IF r.status = 200
                            THEN Commit(states, r.tx)
                            ELSE Rollback(states, r.tx)
    /\ UNCHANGED <<issues, pc, local, members, entries, listed>>

----------------------------------------------------------------------------
\* CreateIssue and DeleteIssue.

\* The maximum taken without "deleted_at IS NULL".
NextSequenceIDAllRows(tbl, p) ==
    SetMax({tbl[i].sequence_id : i \in {j \in DOMAIN tbl : tbl[j].project_id = p}}) + 1

\* The number of the project's non-deleted issues in place of their maximum.
NextSequenceIDByCount(tbl, p) == Cardinality(LiveIssues(tbl, p)) + 1

\* COALESCE(MAX(CAST(sequence_id AS INTEGER)), 0) over
\* "project_id = ? AND deleted_at IS NULL", plus one.
NextSequenceID(tbl, p) == SetMax({tbl[i].sequence_id : i \in LiveIssues(tbl, p)}) + 1

\* req.StartDate and req.EndDate of the CreateIssue requests, in days.
StartDate == 2
EndDate == 3

NewIssue(p, sid, sequenceID) ==
    [project_id |-> p, sequence_id |-> sequenceID, deleted_at |-> FALSE, state_id |-> sid,
     start_date |-> StartDate, end_date |-> EndDate]

\* parsed: req.StartDate and req.EndDate parse (time.Parse); the handler
\* answers 400 otherwise, before any write.  The parent issue and the labels
\* of the request carry no ordering key and are left out.
CreateIssue(p, sid, authorized, parsed) ==
    /\ Len(issues) < MaxIssues
    /\ req' = Request("CreateIssue", p, sid, <<>>, authorized)
    /\ IF ~authorized
       THEN /\ resp' = Respond(404, 0)
            /\ done' = Done(0, 1)
            /\ UNCHANGED issues
       ELSE IF ~parsed
       THEN /\ resp' = Respond(400, 0)
            /\ done' = Done(0, 1)
            /\ UNCHANGED issues
       ELSE LET issue == NewIssue(p, sid, NextSequenceID(issues, p))
                tx == Append(issues, issue)
            IN IF ~LiveStateOf(states, sid, p)
               THEN /\ resp' = Respond(404, 0)
                    /\ done' = Done(1, 1)
                    /\ issues' = Rollback(issues, tx)
               ELSE /\ resp' = Respond(201, Len(tx))
                    /\ done' = Done(1, 1)
                    /\ issues' = Commit(issues, tx)
    /\ saved' = {}
    /\ UNCHANGED <<states, pc, local, members, entries, listed>>

\* A delete that gives the issue's number up.
SoftDeleteIssueClearsNumber(tx, id) == [tx EXCEPT ![id].deleted_at = TRUE, ![id].sequence_id = 0]

\* A delete that closes the gap, as DeleteProjectStateByID does for states.
SoftDeleteIssueAndRenumber(tx, id) ==
    [i \in DOMAIN tx |->
        IF i = id THEN [tx[i] EXCEPT !.deleted_at = TRUE]
        ELSE IF tx[i].project_id = tx[id].project_id /\ ~tx[i].deleted_at
                /\ tx[i].sequence_id > tx[id].sequence_id
        THEN [tx[i] EXCEPT !.sequence_id = tx[i].sequence_id - 1]
        ELSE tx[i]]

\* tx.Model(&Issue).Update("deleted_at", time.Now())
SoftDeleteIssue(tx, id) == [tx EXCEPT ![id].deleted_at = TRUE]

DeleteIssue(p, id, authorized) ==
    /\ req' = Request("DeleteIssue", p, id, <<>>, authorized)
    /\ IF ~authorized
       THEN /\ resp' = Respond(404, 0)
            /\ done' = Done(0, 1)
            /\ UNCHANGED issues
       ELSE IF ~LiveIssueOf(issues, id, p)
       THEN /\ resp' = Respond(404, 0)
            /\ done' = Done(1, 1)
            /\ issues' = Rollback(issues, issues)
       ELSE /\ resp' = Respond(204, id)
            /\ done' = Done(1, 1)
            /\ issues' = Commit(issues, SoftDeleteIssue(issues, id))
    /\ saved' = {}
    /\ UNCHANGED <<states, pc, local, members, entries, listed>>

----------------------------------------------------------------------------
\* UpdateProjectStateByID and UpdateIssueByID: edits of the other fields.

\* A rename that also moves the state to the front.
RenameStateAndMoveFirst(tx, sid, name) == [tx EXCEPT ![sid].name = name, ![sid].sequence = 1]

\* projectState.Name = req.Name; projectState.UpdatedAt = time.Now(); Save.
\* updated_at is no ordering key and is not kept in the rows.
RenameState(tx, sid, name) == [tx EXCEPT ![sid].name = name]

UpdateProjectStateByID(p, sid, name, authorized) ==
    /\ req' = Request("UpdateProjectStateByID", p, sid, <<>>, authorized)
    /\ IF ~authorized
       THEN /\ resp' = Respond(404, 0)
            /\ done' = Done(0, 1)
            /\ saved' = {}
            /\ UNCHANGED states
       ELSE IF ~LiveStateOf(states, sid, p)
       THEN /\ resp' = Respond(404, 0)
            /\ done' = Done(1, 1)
            /\ saved' = {}
            /\ states' = Rollback(states, states)
       ELSE /\ resp' = Respond(200, sid)
            /\ done' = Done(1, 1)
            /\ saved' = {sid}
            /\ states' = Commit(states, RenameState(states, sid, name))
    /\ UNCHANGED <<issues, pc, local, members, entries, listed>>

\* Issue.StateID = stateID; Save.  Title, description, priority, dates,
\* points, labels and parent carry no ordering key and are not kept in the
\* rows.
MoveIssue(tbl, id, stateID) == [tbl EXCEPT ![id].state_id = stateID]

\* Issue.StartDate and Issue.EndDate from the request; 0: the request
\* carries none (nil).
SetIssueDates(tbl, id, startDate, endDate) ==
    [tbl EXCEPT ![id].start_date = IF startDate # 0 THEN startDate ELSE @,
                ![id].end_date = IF endDate # 0 THEN endDate ELSE @]

\* stateID: req.StateID, 0 when the request carries none (nil); startDate
\* and endDate: req.StartDate and req.EndDate, 0 when nil.
UpdateIssueByIDRequest(p, id, stateID, startDate, endDate, authorized) ==
    /\ req' = Request("UpdateIssueByID", p, id, IF stateID = 0 THEN <<>> ELSE <<stateID>>, authorized)
    /\ IF ~authorized
       THEN /\ resp' = Respond(404, 0)
            /\ done' = Done(0, 1)
            /\ UNCHANGED issues
       ELSE IF ~LiveIssueOf(issues, id, p)
       THEN /\ resp' = Respond(404, 0)
            /\ done' = Done(0, 1)
            /\ UNCHANGED issues
       ELSE IF stateID # 0 /\ ~LiveStateOf(states, stateID, p)
       THEN /\ resp' = Respond(404, 0)
            /\ done' = Done(1, 1)
            /\ issues' = Rollback(issues, issues)
       ELSE LET dated == SetIssueDates(issues, id, startDate, endDate)
                tx == IF stateID # 0 THEN MoveIssue(dated, id, stateID) ELSE dated
            IN IF ~LiveStateOf(states, tx[id].state_id, tx[id].project_id)
               THEN /\ resp' = Respond(404, 0)
                    /\ done' = Done(1, 1)
                    /\ issues' = Rollback(issues, tx)
               ELSE /\ resp' = Respond(200, id)
                    /\ done' = Done(1, 1)
                    /\ issues' = Commit(issues, tx)
    /\ saved' = {}
    /\ UNCHANGED <<states, pc, local, members, entries, listed>>

\* The requests that carry no dates.
UpdateIssueByID(p, id, stateID, authorized) ==
    UpdateIssueByIDRequest(p, id, stateID, 0, 0, authorized)

----------------------------------------------------------------------------
\* Requests served one at a time: a handler runs from StartTransaction to its
\* response with no other request in between.  Spec serves the requests on
\* project states, SpecIssue the requests on issues.

Init ==
    /\ states = <<>>
    /\ issues = <<>>
    /\ req = NoReq
    /\ resp = NoResp
    /\ pc = [w \in Workers |-> "idle"]
    /\ local = [w \in Workers |-> NoLocal]
    /\ saved = {}
    /\ done = Done(0, 0)
    /\ members = <<>>
    /\ entries = <<>>
    /\ listed = <<>>

Next ==
    \/ \E p \in Projects, authorized \in BOOLEAN : CreateProjectState(p, authorized)
    \/ \E p \in Projects, sid \in StateIds, authorized \in BOOLEAN :
          DeleteProjectStateByID(p, sid, authorized)
    \/ \E p \in Projects, list \in StageSequences, authorized \in BOOLEAN :
          UpdateProjectStatesSequence(p, list, authorized)

Spec == Init /\ [][Next]_vars

\* Issue requests served one at a time, over the states created in their
\* project.
NextIssue ==
    \/ \E p \in Projects, authorized \in BOOLEAN : CreateProjectState(p, authorized)
    \/ \E p \in Projects, sid \in StateIds, authorized \in BOOLEAN, parsed \in BOOLEAN :
          CreateIssue(p, sid, authorized, parsed)
    \/ \E p \in Projects, id \in IssueIds, authorized \in BOOLEAN : DeleteIssue(p, id, authorized)

SpecIssue == Init /\ [][NextIssue]_vars

----------------------------------------------------------------------------
\* A Save the store refuses.  Every tx.Save of the two handlers is followed by
\* "if err != nil { tx.Rollback(); ... 500 }".  failAt is the write that
\* fails; the writes before it have been made in the transaction.

\* DeleteProjectStateByID: failAt = 0 is the Save of the soft delete,
\* failAt = k the Save of the k-th remaining state.
DeleteProjectStateByIDSaveFails(p, sid, failAt) ==
    /\ LiveStateOf(states, sid, p)
    /\ IssueCount(issues, sid) = 0
    /\ req' = Request("DeleteProjectStateByID", p, sid, <<>>, TRUE)
    /\ resp' = Respond(500, 0)
    /\ done' = Done(1, 1)
    /\ IF failAt = 0
       THEN /\ states' = Rollback(states, states)
            /\ saved' = {sid}
       ELSE LET tx == SoftDeleteState(states, sid)
            IN /\ failAt <= Cardinality(LiveStates(tx, p))
               /\ \E o \in OrderBySequence(tx, LiveStates(tx, p)) :
                     /\ states' = Rollback(states, ResetSequence(tx, SubSeq(o, 1, failAt - 1)))
                     /\ saved' = {sid} \cup {o[k] : k \in 1..failAt}
    /\ UNCHANGED <<issues, pc, local, members, entries, listed>>

\* UpdateProjectStatesSequence: failAt is the position of req.StageSequence
\* whose Save fails; the ids up to it have been fetched.
UpdateProjectStatesSequenceSaveFails(p, list, failAt) ==
    /\ failAt \in DOMAIN list
    /\ \A k \in 1..failAt : list[k] \in DOMAIN states /\ states[list[k]].project_id = p
    /\ req' = Request("UpdateProjectStatesSequence", p, 0, list, TRUE)
    /\ resp' = Respond(500, 0)
    /\ done' = Done(1, 1)
    /\ states' = Rollback(states, StageSequenceLoop(states, p, SubSeq(list, 1, failAt - 1), 1).tx)
    /\ saved' = {list[k] : k \in 1..failAt}
    /\ UNCHANGED <<issues, pc, local, members, entries, listed>>

\* The requests on project states, with Saves that may fail.
NextFault ==
    \/ Next
    \/ \E p \in Projects, sid \in StateIds, failAt \in 0..MaxStates :
          DeleteProjectStateByIDSaveFails(p, sid, failAt)
    \/ \E p \in Projects, list \in StageSequences, failAt \in 1..MaxList :
          UpdateProjectStatesSequenceSaveFails(p, list, failAt)

SpecFault == Init /\ [][NextFault]_vars

\* Every handler that writes project states or issues, one request at a time,
\* on tables of at most MaxAllStates and MaxAllIssues rows; the ids of the
\* requests range over the rows those tables can hold.  The callers pass the
\* role check, except for the two handlers that Spec and SpecIssue do not
\* serve: the refusals of the others are served there.
AllStateIds == 1..MaxAllStates
AllIssueIds == 1..MaxAllIssues
AllStageSequences == UNION {[1..n -> AllStateIds] : n \in 0..MaxList}

NextAll ==
    \/ \E p \in Projects :
          Len(states) < MaxAllStates /\ CreateProjectState(p, TRUE)
    \/ \E p \in Projects, sid \in AllStateIds, name \in Names, authorized \in BOOLEAN :
          UpdateProjectStateByID(p, sid, name, authorized)
    \/ \E p \in Projects, sid \in AllStateIds :
          DeleteProjectStateByID(p, sid, TRUE)
    \/ \E p \in Projects, list \in AllStageSequences :
          UpdateProjectStatesSequence(p, list, TRUE)
    \/ \E p \in Projects, sid \in AllStateIds, parsed \in BOOLEAN :
          Len(issues) < MaxAllIssues /\ CreateIssue(p, sid, TRUE, parsed)
    \/ \E p \in Projects, id \in AllIssueIds, stateID \in 0..MaxAllStates, authorized \in BOOLEAN :
          UpdateIssueByID(p, id, stateID, authorized)
    \/ \E p \in Projects, id \in AllIssueIds : DeleteIssue(p, id, TRUE)

SpecAll == Init /\ [][NextAll]_vars

----------------------------------------------------------------------------
\* Queries the store refuses in the issue handlers.

\* CreateIssue when the MAX(sequence_id) query fails: 500, and the handler
\* returns with neither Commit nor Rollback.
CreateIssueMaxSeqFails(p, sid) ==
    /\ req' = Request("CreateIssue", p, sid, <<>>, TRUE)
    /\ resp' = Respond(500, 0)
    /\ done' = Done(0, 1)
    /\ saved' = {}
    /\ UNCHANGED <<states, issues, pc, local, members, entries, listed>>

\* CreateIssue when the fetch of the labels fails, after the issue row was
\* created: tx.Rollback() and 500.  It comes before the fetch of the state.
CreateIssueLabelsFail(p, sid) ==
    /\ Len(issues) < MaxIssues
    /\ req' = Request("CreateIssue", p, sid, <<>>, TRUE)
    /\ LET issue == NewIssue(p, sid, NextSequenceID(issues, p))
           tx == Append(issues, issue)
       IN issues' = Rollback(issues, tx)
    /\ resp' = Respond(500, 0)
    /\ done' = Done(1, 1)
    /\ saved' = {}
    /\ UNCHANGED <<states, pc, local, members, entries, listed>>

\* UpdateIssueByID when the fetch of the labels after tx.Save(&Issue) fails:
\* tx.Rollback() and a 500, with no return.  The handler goes on to fetch the
\* state on the transaction it has ended; that query fails with an error
\* other than ErrRecordNotFound, so tx.Rollback() is called and a 500 is
\* written a second time before the return.
UpdateIssueByIDLabelsFail(p, id, stateID) ==
    /\ LiveIssueOf(issues, id, p)
    /\ stateID # 0 => LiveStateOf(states, stateID, p)
    /\ req' = Request("UpdateIssueByID", p, id, IF stateID = 0 THEN <<>> ELSE <<stateID>>, TRUE)
    /\ LET tx == IF stateID # 0 THEN MoveIssue(issues, id, stateID) ELSE issues
       IN issues' = Rollback(issues, tx)
    /\ resp' = Respond(500, 0)
    /\ done' = Done(2, 2)
    /\ saved' = {}
    /\ UNCHANGED <<states, pc, local, members, entries, listed>>

\* The handlers that create, move and delete issues and that create and
\* delete the states the issues refer to, one request at a time, with the
\* queries that may fail; tables and ids as in SpecAll.
NextRef ==
    \/ \E p \in Projects, authorized \in BOOLEAN :
          Len(states) < MaxAllStates /\ CreateProjectState(p, authorized)
    \/ \E p \in Projects, sid \in AllStateIds, authorized \in BOOLEAN :
          DeleteProjectStateByID(p, sid, authorized)
    \/ \E p \in Projects, sid \in AllStateIds, authorized \in BOOLEAN, parsed \in BOOLEAN :
          Len(issues) < MaxAllIssues /\ CreateIssue(p, sid, authorized, parsed)
    \/ \E p \in Projects, id \in AllIssueIds, stateID \in 0..MaxAllStates, authorized \in BOOLEAN :
          UpdateIssueByID(p, id, stateID, authorized)
    \/ \E p \in Projects, id \in AllIssueIds, authorized \in BOOLEAN : DeleteIssue(p, id, authorized)
    \/ \E p \in Projects, sid \in AllStateIds : CreateIssueMaxSeqFails(p, sid)
    \/ \E p \in Projects, sid \in AllStateIds :
          Len(issues) < MaxAllIssues /\ CreateIssueLabelsFail(p, sid)
    \/ \E p \in Projects, id \in AllIssueIds, stateID \in 0..MaxAllStates :
          UpdateIssueByIDLabelsFail(p, id, stateID)

SpecRef == Init /\ [][NextRef]_vars

----------------------------------------------------------------------------
\* ListProjectStates: the non-deleted states of a project by ascending
\* sequence.  The page of the request holds every state of the project.

\* paged: utils.ParsePagination accepts the parameters of the request; the
\* handler answers 400 otherwise, before it starts a transaction.
ListProjectStates(p, authorized, paged) ==
    /\ req' = Request("ListProjectStates", p, 0, <<>>, authorized)
    /\ IF ~paged
       THEN /\ resp' = Respond(400, 0)
            /\ done' = Done(0, 1)
            /\ listed' = <<>>
       ELSE IF ~authorized
       THEN /\ resp' = Respond(404, 0)
            /\ done' = Done(0, 1)
            /\ listed' = <<>>
       ELSE /\ resp' = Respond(200, 0)
            /\ done' = Done(1, 1)
            /\ listed' \in OrderBySequence(states, LiveStates(states, p))
    /\ saved' = {}
    /\ UNCHANGED <<states, issues, pc, local, members, entries>>

\* The handlers of the project states with the listing, one request at a
\* time; tables and ids as in SpecAll.
NextList ==
    \/ \E p \in Projects : Len(states) < MaxAllStates /\ CreateProjectState(p, TRUE)
    \/ \E p \in Projects, sid \in AllStateIds : DeleteProjectStateByID(p, sid, TRUE)
    \/ \E p \in Projects, list \in AllStageSequences :
          UpdateProjectStatesSequence(p, list, TRUE)
    \/ \E p \in Projects, authorized \in BOOLEAN, paged \in BOOLEAN :
          ListProjectStates(p, authorized, paged)

SpecList == Init /\ [][NextList]_vars

----------------------------------------------------------------------------
\* CreateIssueTimeEntry: the time entries of an issue.  Dates are days, as
\* time.Parse("2006-01-02", ...) yields them.

Dates == 1..MaxDate

\* A check of the start of the range alone.
OutsideDateRangeStartOnly(issue, parsedDate) == parsedDate < issue.start_date

\* parsedDate.Before(issue.StartDate) || parsedDate.After(issue.EndDate)
OutsideDateRange(issue, parsedDate) ==
    parsedDate < issue.start_date \/ parsedDate > issue.end_date

NewTimeEntry(p, id, parsedDate) == [project_id |-> p, issue_id |-> id, date |-> parsedDate]

\* parsed: request.StartTime, request.EndTime and request.Date parse; the
\* request keeps the date it could parse.
CreateIssueTimeEntry(p, id, date, authorized, parsed) ==
    /\ Len(entries) < MaxEntries
    /\ req' = Request("CreateIssueTimeEntry", p, id, IF parsed THEN <<date>> ELSE <<>>, authorized)
    /\ IF ~authorized
       THEN /\ resp' = Respond(404, 0)
            /\ done' = Done(0, 1)
            /\ UNCHANGED entries
       ELSE IF ~LiveIssueOf(issues, id, p)
       THEN /\ resp' = Respond(404, 0)
            /\ done' = Done(0, 1)
            /\ UNCHANGED entries
       ELSE IF ~parsed
       THEN /\ resp' = Respond(400, 0)
            /\ done' = Done(0, 1)
            /\ UNCHANGED entries
       ELSE IF OutsideDateRange(issues[id], date)
       THEN /\ resp' = Respond(400, 0)
            /\ done' = Done(1, 1)
            /\ entries' = Rollback(entries, entries)
       ELSE LET tx == Append(entries, NewTimeEntry(p, id, date))
            IN /\ resp' = Respond(201, Len(tx))
               /\ done' = Done(1, 1)
               /\ entries' = Commit(entries, tx)
    /\ saved' = {}
    /\ UNCHANGED <<states, issues, pc, local, members, listed>>

\* The handlers that create issues, change their dates and delete them,
\* and the handler that creates time entries, one request at a time.
TimeIssueIds == 1..MaxTimeIssues

NextTime ==
    \/ \E p \in Projects : Len(states) < MaxTimeIssues /\ CreateProjectState(p, TRUE)
    \/ \E p \in Projects, sid \in TimeIssueIds :
          Len(issues) < MaxTimeIssues /\ CreateIssue(p, sid, TRUE, TRUE)
    \/ \E p \in Projects, id \in TimeIssueIds, startDate \in 0..MaxDate, endDate \in 0..MaxDate :
          UpdateIssueByIDRequest(p, id, 0, startDate, endDate, TRUE)
    \/ \E p \in Projects, id \in TimeIssueIds : DeleteIssue(p, id, TRUE)
    \/ \E p \in Projects, id \in TimeIssueIds, date \in Dates, authorized \in BOOLEAN, parsed \in BOOLEAN :
          CreateIssueTimeEntry(p, id, date, authorized, parsed)

SpecTime == Init /\ [][NextTime]_vars

----------------------------------------------------------------------------
\* AddSingleProjectMembers and AddORRemoveProjectMembers: the members of a
\* project.  A row that tx.Delete removed is found by no query and is
\* dropped from the table.

Emails == {"a@x", "b@x"}
Roles == {"Member", "Manager"}

\* An operation of a batch: operation is "add", "remove" or anything else,
\* on one email at least.
EmailLists == UNION {[1..n -> Emails] : n \in 1..MaxEmails}

Operations ==
    [operation : {"add"}, role : Roles, emails : EmailLists]
    \cup [operation : {"remove"}, role : {"Member"}, emails : EmailLists]
    \cup [operation : {"update"}, role : {"Member"}, emails : {<<"a@x">>}]

OperationLists == UNION {[1..n -> Operations] : n \in 0..MaxOperations}

\* "email = ? AND project_id = ?" on project_members
MembersOf(tbl, p, email) ==
    {i \in DOMAIN tbl : tbl[i].project_id = p /\ tbl[i].email = email}

NewMember(p, email, role) == [project_id |-> p, email |-> email, role |-> role]

\* An add that creates a row without looking for an existing one.
AddMemberAlwaysCreates(tx, p, email, role) == Append(tx, NewMember(p, email, role))

\* The "add" of one email: the role of the existing row is saved, or a row
\* is created when First finds none.
AddMember(tx, p, email, role) ==
    IF MembersOf(tx, p, email) # {}
    THEN LET existingMember == CHOOSE i \in MembersOf(tx, p, email) :
                                   \A j \in MembersOf(tx, p, email) : i <= j
         IN [tx EXCEPT ![existingMember].role = role]
    ELSE Append(tx, NewMember(p, email, role))

\* The "remove" of one email: tx.Delete of the row, which no later query
\* finds, or nothing when First finds none (continue).
RemoveMember(tx, p, email) ==
    IF MembersOf(tx, p, email) # {}
    THEN LET projectMember == CHOOSE i \in MembersOf(tx, p, email) :
                                  \A j \in MembersOf(tx, p, email) : i <= j
         IN [k \in 1..(Len(tx) - 1) |-> IF k < projectMember THEN tx[k] ELSE tx[k + 1]]
    ELSE tx

\* Whether the step on one email writes (Create, Save or Delete).
MemberWrites(tx, p, operation, email) ==
    operation = "add" \/ MembersOf(tx, p, email) # {}

\* The two loops of AddORRemoveProjectMembers from operation k, email j on.
\* writes is the number of writes the store still accepts (the next one
\* fails when it is 0).  Yields the status and the transaction's table.
RECURSIVE MemberOperationsLoop(_, _, _, _, _, _)
MemberOperationsLoop(tx, p, operations, k, j, writes) ==
    IF k > Len(operations)
    THEN [status |-> 200, tx |-> tx]
    ELSE IF j = 1 /\ operations[k].operation \notin {"add", "remove"}
    THEN [status |-> 400, tx |-> tx]
    ELSE IF j > Len(operations[k].emails)
    THEN MemberOperationsLoop(tx, p, operations, k + 1, 1, writes)
    ELSE LET operation == operations[k]
             email == operation.emails[j]
         IN IF MemberWrites(tx, p, operation.operation, email) /\ writes = 0
            THEN [status |-> 500, tx |-> tx]
            ELSE MemberOperationsLoop(
                     IF operation.operation = "add"
                     THEN AddMember(tx, p, email, operation.role)
                     ELSE RemoveMember(tx, p, email),
                     p, operations, k, j + 1,
                     IF MemberWrites(tx, p, operation.operation, email) THEN writes - 1 ELSE writes)

\* A transaction left open whose writes reach the table all the same.
AbandonKeepsWrites(stored, tx) == tx

\* The transaction of a handler that returns with neither Commit nor
\* Rollback: its writes are never committed.
Abandon(stored, tx) == stored

\* The handler checks no role.  writes: the writes the store accepts before
\* one fails.
AddORRemoveProjectMembers(p, operations, writes) ==
    /\ req' = Request("AddORRemoveProjectMembers", p, 0, operations, TRUE)
    /\ \E r \in {MemberOperationsLoop(members, p, operations, 1, 1, writes)} :
          /\ Len(r.tx) <= MaxMembers
          /\ resp' = Respond(r.status, 0)
          /\ IF r.status = 200
             THEN /\ members' = Commit(members, r.tx)
                  /\ done' = Done(1, 1)
             ELSE IF r.status = 500
             THEN /\ members' = Rollback(members, r.tx)
                  /\ done' = Done(1, 1)
             ELSE /\ members' = Abandon(members, r.tx)
                  /\ done' = Done(0, 1)
    /\ saved' = {}
    /\ UNCHANGED <<states, issues, pc, local, entries, listed>>

AddSingleProjectMembers(p, email, role, authorized) ==
    /\ MembersOf(members, p, email) # {} \/ Len(members) < MaxMembers
    /\ req' = Request("AddSingleProjectMembers", p, 0, <<email, role>>, authorized)
    /\ IF ~authorized
       THEN /\ resp' = Respond(403, 0)
            /\ done' = Done(0, 1)
            /\ UNCHANGED members
       ELSE IF \E i \in MembersOf(members, p, email) : members[i].role = role
       THEN /\ resp' = Respond(409, 0)
            /\ done' = Done(1, 1)
            /\ members' = Rollback(members, members)
       ELSE /\ resp' = Respond(201, 0)
            /\ done' = Done(1, 1)
            /\ members' = Commit(members, AddMember(members, p, email, role))
    /\ saved' = {}
    /\ UNCHANGED <<states, issues, pc, local, entries, listed>>

NextMember ==
    \/ \E p \in Projects, email \in Emails, role \in Roles, authorized \in BOOLEAN :
          AddSingleProjectMembers(p, email, role, authorized)
    \/ \E p \in Projects, operations \in OperationLists, writes \in 0..(MaxOperations * MaxEmails) :
          AddORRemoveProjectMembers(p, operations, writes)

SpecMember == Init /\ [][NextMember]_vars

----------------------------------------------------------------------------
\* Two workers serving create requests at the same time.  Each handler runs
\* in its own transaction (utils.StartTransaction) and reads committed rows;
\* a row it inserts is seen by the other worker once committed.  A handler is
\* cut where the other worker's commit can fall between its statements:
\* after the read that decides the sequence, before the insert.

Creating(w, op) == pc[w] = "create" /\ local[w].op = op

Pending(op) == Cardinality({w \in Workers : Creating(w, op)})

\* CreateProjectState up to the count of the existing states.
CreateProjectStateCount(w, p, authorized) ==
    /\ pc[w] = "idle"
    /\ Len(states) + Pending("CreateProjectState") < MaxStates
    /\ IF ~authorized
       THEN /\ req' = Request("CreateProjectState", p, 0, <<>>, authorized)
            /\ resp' = Respond(404, 0)
            /\ done' = Done(0, 1)
            /\ UNCHANGED <<pc, local>>
       ELSE /\ pc' = [pc EXCEPT ![w] = "create"]
            /\ local' = [local EXCEPT ![w] = [op |-> "CreateProjectState", project_id |-> p,
                                              state_id |-> 0, read |-> ExistingCount(states, p)]]
            /\ UNCHANGED <<req, resp, done>>
    /\ UNCHANGED <<states, issues, saved, members, entries, listed>>

\* CreateProjectState from the insert to the commit.
CreateProjectStateInsert(w) ==
    /\ Creating(w, "CreateProjectState")
    /\ LET projectState == NewProjectState(local[w].project_id, local[w].read)
           tx == Append(states, projectState)
       IN /\ states' = Commit(states, tx)
          /\ resp' = Respond(201, Len(tx))
          /\ done' = Done(1, 1)
    /\ req' = Request("CreateProjectState", local[w].project_id, 0, <<>>, TRUE)
    /\ pc' = [pc EXCEPT ![w] = "idle"]
    /\ local' = [local EXCEPT ![w] = NoLocal]
    /\ UNCHANGED <<issues, saved, members, entries, listed>>

\* CreateIssue up to sequenceID := maxSeq.MaxSeq + 1.  The statement built
\* after it with clause.Locking is never run (it ends in .Error with no
\* finisher), so no row is locked.
CreateIssueMaxSeq(w, p, sid, authorized, parsed) ==
    /\ pc[w] = "idle"
    /\ Len(issues) + Pending("CreateIssue") < MaxIssues
    /\ IF ~authorized \/ ~parsed
       THEN /\ req' = Request("CreateIssue", p, sid, <<>>, authorized)
            /\ resp' = Respond(IF ~authorized THEN 404 ELSE 400, 0)
            /\ done' = Done(0, 1)
            /\ UNCHANGED <<pc, local>>
       ELSE /\ pc' = [pc EXCEPT ![w] = "create"]
            /\ local' = [local EXCEPT ![w] = [op |-> "CreateIssue", project_id |-> p,
                                              state_id |-> sid, read |-> NextSequenceID(issues, p)]]
            /\ UNCHANGED <<req, resp, done>>
    /\ UNCHANGED <<states, issues, saved, members, entries, listed>>

\* CreateIssue from the insert to the commit.
CreateIssueInsert(w) ==
    /\ Creating(w, "CreateIssue")
    /\ LET issue == NewIssue(local[w].project_id, local[w].state_id, local[w].read)
           tx == Append(issues, issue)
       IN IF ~LiveStateOf(states, local[w].state_id, local[w].project_id)
          THEN /\ resp' = Respond(404, 0)
               /\ done' = Done(1, 1)
               /\ issues' = Rollback(issues, tx)
          ELSE /\ resp' = Respond(201, Len(tx))
               /\ done' = Done(1, 1)
               /\ issues' = Commit(issues, tx)
    /\ req' = Request("CreateIssue", local[w].project_id, local[w].state_id, <<>>, TRUE)
    /\ pc' = [pc EXCEPT ![w] = "idle"]
    /\ local' = [local EXCEPT ![w] = NoLocal]
    /\ UNCHANGED <<states, saved, members, entries, listed>>

NextConc ==
    \/ \E w \in Workers, p \in Projects, authorized \in BOOLEAN :
          CreateProjectStateCount(w, p, authorized)
    \/ \E w \in Workers : CreateProjectStateInsert(w)
    \/ \E w \in Workers, p \in Projects, sid \in StateIds, authorized \in BOOLEAN, parsed \in BOOLEAN :
          CreateIssueMaxSeq(w, p, sid, authorized, parsed)
    \/ \E w \in Workers : CreateIssueInsert(w)

SpecConc == Init /\ [][NextConc]_vars

----------------------------------------------------------------------------
\* The properties of the ordering keys.

\* The sequences of the non-deleted states of project p are exactly 1..N.
Dense(tbl, p) ==
    LET S == LiveStates(tbl, p)
    IN /\ \A i, j \in S : i # j => tbl[i].sequence # tbl[j].sequence
       /\ {tbl[i].sequence : i \in S} = 1..Cardinality(S)

Handled(op, status) == req.op = op /\ req.authorized /\ resp.status = status

\* C1: after every completed CreateProjectState, DeleteProjectStateByID and
\* UpdateProjectStatesSequence request, the sequences of the non-deleted
\* states of each project are exactly 1..N, without gap or duplicate.
DensityInvariant == \A p \in Projects : Dense(states, p)

\* C2: two create requests served at the same time never give their rows the
\* same sequence in one project, and the first two rows of a project get 1
\* and 2.
ConcurrentCreatesDistinct ==
    \A p \in Projects :
        LET S == {i \in DOMAIN states : states[i].project_id = p}
            I == {i \in DOMAIN issues : issues[i].project_id = p}
        IN /\ \A i, j \in S : i # j => states[i].sequence # states[j].sequence
           /\ \A i, j \in I : i # j => issues[i].sequence_id # issues[j].sequence_id
           /\ Cardinality(S) = 2 => {states[i].sequence : i \in S} = {1, 2}
           /\ Cardinality(I) = 2 => {issues[i].sequence_id : i \in I} = {1, 2}

\* C3: a successful DeleteProjectStateByID on a project whose non-deleted
\* states have sequences 1..N leaves the remaining states with sequences
\* 1..N-1 in the same relative order: a state below the removed sequence
\* keeps its value, a state above it moves down by one.
CompactionCorrect ==
    [][(/\ req'.op = "DeleteProjectStateByID"
        /\ resp'.status = 204
        /\ Dense(states, req'.project_id))
       => LET p == req'.project_id
              removed == states[req'.id].sequence
          IN /\ LiveStates(states', p) = LiveStates(states, p) \ {req'.id}
             /\ Dense(states', p)
             /\ \A i \in LiveStates(states', p) :
                   states'[i].sequence = IF states[i].sequence < removed
                                         THEN states[i].sequence
                                         ELSE states[i].sequence - 1
             /\ \A i, j \in LiveStates(states', p) :
                   states[i].sequence < states[j].sequence
                       => states'[i].sequence < states'[j].sequence]_vars

\* A state with two states after it was removed: the two moved down to 1, 2.
CompactionWitness ==
    /\ Handled("DeleteProjectStateByID", 204)
    /\ states[req.id].sequence = 1
    /\ Cardinality(LiveStates(states, req.project_id)) = 2
    /\ Dense(states, req.project_id)

\* C4: after a successful UpdateProjectStatesSequence the state whose id is
\* at 0-based index i of the list has sequence i + 1.
ReorderAssignsPosition ==
    Handled("UpdateProjectStatesSequence", 200)
        => \A k \in DOMAIN req.list : states[req.list[k]].sequence = k

\* Some id of the list is not a state of project p.
HasForeignId(tbl, list, p) ==
    \E k \in DOMAIN list : ~(list[k] \in DOMAIN tbl /\ tbl[list[k]].project_id = p)

\* C5: an UpdateProjectStatesSequence whose list holds, at any position, an
\* id that is not a state of the project answers NotFound and leaves every
\* stored state as it was, the states listed before the bad id included.
ReorderForeignIdRollsBack ==
    [][(/\ req'.op = "UpdateProjectStatesSequence"
        /\ HasForeignId(states, req'.list, req'.project_id))
       => (resp'.status = 404 /\ states' = states)]_vars

\* A reorder was refused at its second id after its first id, a state of the
\* project, had been given a sequence other than the one it has.
ReorderForeignIdWitness ==
    /\ Handled("UpdateProjectStatesSequence", 404)
    /\ Len(req.list) = 2
    /\ req.list[1] \in DOMAIN states
    /\ states[req.list[1]].project_id = req.project_id
    /\ states[req.list[1]].sequence # 1
    /\ HasForeignId(states, req.list, req.project_id)

\* The list names every non-deleted state of project p exactly once.
IsPermutation(tbl, list, p) ==
    /\ {list[k] : k \in DOMAIN list} = LiveStates(tbl, p)
    /\ \A i, j \in DOMAIN list : i # j => list[i] # list[j]

\* C6: an UpdateProjectStatesSequence whose list is not a permutation of the
\* project's non-deleted states is rejected and changes no sequence.
ReorderRejectsNonPermutation ==
    [][(/\ req'.op = "UpdateProjectStatesSequence"
        /\ ~IsPermutation(states, req'.list, req'.project_id))
       => (resp'.status # 200 /\ states' = states)]_vars

\* C7: a successful CreateIssue gives the new issue sequence_id M + 1, M the
\* greatest sequence_id among the other non-deleted issues of the project
\* (0 when there is none).
CreateIssueAssignsMaxPlusOne ==
    Handled("CreateIssue", 201)
        => LET new == issues[resp.id]
               others == LiveIssues(issues, req.project_id) \ {resp.id}
           IN /\ resp.id = Len(issues)
              /\ new.project_id = req.project_id
              /\ ~new.deleted_at
              /\ \A i \in others : issues[i].sequence_id < new.sequence_id
              /\ \/ new.sequence_id = 1 /\ others = {}
                 \/ \E i \in others : issues[i].sequence_id = new.sequence_id - 1

\* An issue was created with sequence_id 2 in a project that also holds a
\* deleted issue.
CreateIssueWitness ==
    /\ Handled("CreateIssue", 201)
    /\ issues[resp.id].sequence_id = 2
    /\ \E i \in DOMAIN issues : issues[i].project_id = req.project_id /\ issues[i].deleted_at

\* C8: a successful CreateProjectState gives the new state sequence M + 1, M
\* the greatest sequence among the other non-deleted states of the project
\* (0 when there is none); soft-deleted states do not count.
CreateStateAssignsMaxPlusOne ==
    Handled("CreateProjectState", 201)
        => LET others == LiveStates(states, req.project_id) \ {resp.id}
           IN states[resp.id].sequence = SetMax({states[i].sequence : i \in others}) + 1

\* C9: a sequence_id given to an issue is never given to another issue of the
\* project, also once the first one is soft-deleted.
NoSequenceIDReuse ==
    \A i, j \in DOMAIN issues :
        (i # j /\ issues[i].project_id = issues[j].project_id)
            => issues[i].sequence_id # issues[j].sequence_id

\* C10: after DeleteProjectStateByID has reset the sequences, running the
\* reset again (non-deleted states by sequence ascending, sequence := 1-based
\* position) changes no row.
CompactionIdempotent ==
    Handled("DeleteProjectStateByID", 204)
        => CompactAfterRemoval(states, req.project_id) = {states}

\* A state was removed from a project that keeps two states.
CompactionIdempotentWitness ==
    /\ Handled("DeleteProjectStateByID", 204)
    /\ Cardinality(LiveStates(states, req.project_id)) = 2

\* C11: whatever CreateIssue and DeleteIssue requests have been served, one
\* at a time, no two non-deleted issues of one project have the same
\* sequence_id, and every sequence_id is a positive integer.
IssueNumbersUnique ==
    /\ \A i, j \in DOMAIN issues :
          (i # j /\ issues[i].project_id = issues[j].project_id
                 /\ ~issues[i].deleted_at /\ ~issues[j].deleted_at)
          => issues[i].sequence_id # issues[j].sequence_id
    /\ \A i \in DOMAIN issues : issues[i].sequence_id \in Nat /\ issues[i].sequence_id >= 1

\* An issue created next to a non-deleted and a deleted issue of its project.
IssueNumbersUniqueWitness ==
    /\ Handled("CreateIssue", 201)
    /\ \E i, j \in DOMAIN issues :
          /\ i # resp.id /\ j # resp.id
          /\ issues[i].project_id = req.project_id /\ ~issues[i].deleted_at
          /\ issues[j].project_id = req.project_id /\ issues[j].deleted_at

\* C12: DeleteIssue sets deleted_at on its target only: the sequence_id of
\* every issue, the deleted one included, stays as it was, and no other
\* issue's deleted_at changes.
DeleteIssueKeepsNumbers ==
    [][req'.op = "DeleteIssue" =>
          /\ DOMAIN issues' = DOMAIN issues
          /\ \A i \in DOMAIN issues :
                /\ issues'[i].sequence_id = issues[i].sequence_id
                /\ issues'[i].project_id = issues[i].project_id
                /\ issues'[i].state_id = issues[i].state_id
                /\ issues'[i].deleted_at =
                      (issues[i].deleted_at \/ (resp'.status = 204 /\ i = req'.id))]_vars

\* An issue deleted while a later issue of its project is not.
DeleteIssueKeepsNumbersWitness ==
    /\ Handled("DeleteIssue", 204)
    /\ issues[req.id].deleted_at
    /\ \E j \in LiveIssues(issues, req.project_id) :
          issues[j].sequence_id > issues[req.id].sequence_id

\* The project of the request has exactly the issues 1, 2, 3 and the request
\* deletes issue 2.
DeletesSecondOfThree ==
    /\ req'.op = "DeleteIssue" /\ req'.authorized /\ resp'.status = 204
    /\ Cardinality(LiveIssues(issues, req'.project_id)) = 3
    /\ {issues[i].sequence_id : i \in LiveIssues(issues, req'.project_id)} = {1, 2, 3}
    /\ issues[req'.id].sequence_id = 2

\* C13: in a project with the issues 1, 2, 3, deleting issue 2 leaves the two
\* remaining issues with the sequences 1 and 2 (the former 3 becomes 2).
DeleteIssueClosesGap ==
    [][DeletesSecondOfThree =>
          {issues'[i].sequence_id : i \in LiveIssues(issues', req'.project_id)} = {1, 2}]_vars

\* C13, as the handler behaves: the two remaining issues keep the sequences
\* 1 and 3.
DeleteIssueLeavesGap ==
    [][DeletesSecondOfThree =>
          /\ {issues'[i].sequence_id : i \in LiveIssues(issues', req'.project_id)} = {1, 3}
          /\ \A i \in LiveIssues(issues', req'.project_id) :
                issues'[i].sequence_id = issues[i].sequence_id]_vars

\* Issue 2 of three deleted: the project's other two issues are 1 and 3.
DeleteIssueLeavesGapWitness ==
    /\ Handled("DeleteIssue", 204)
    /\ issues[req.id].deleted_at /\ issues[req.id].sequence_id = 2
    /\ Cardinality(LiveIssues(issues, req.project_id)) = 2
    /\ \E i, j \in LiveIssues(issues, req.project_id) :
          issues[i].sequence_id = 1 /\ issues[j].sequence_id = 3

\* C14: a request addressed to one project changes no sequence and no
\* deleted_at of a state or an issue of another project, whatever ids the
\* request names (a reorder list with another project's state ids included).
ScopeIndependence ==
    [][/\ \A i \in DOMAIN states :
             states[i].project_id # req'.project_id
             => /\ i \in DOMAIN states'
                /\ states'[i].project_id = states[i].project_id
                /\ states'[i].sequence = states[i].sequence
                /\ states'[i].deleted_at = states[i].deleted_at
       /\ \A i \in DOMAIN issues :
             issues[i].project_id # req'.project_id
             => /\ i \in DOMAIN issues'
                /\ issues'[i].project_id = issues[i].project_id
                /\ issues'[i].sequence_id = issues[i].sequence_id
                /\ issues'[i].deleted_at = issues[i].deleted_at]_vars

\* A state deleted in one project while the other project has a non-deleted
\* state that is not at sequence 1.
ScopeIndependenceWitness ==
    /\ Handled("DeleteProjectStateByID", 204)
    /\ \E i \in DOMAIN states :
          /\ states[i].project_id # req.project_id
          /\ ~states[i].deleted_at
          /\ states[i].sequence > 1

\* C18: once deleted_at is set on a state or an issue, the row stays and no
\* later create, update, delete or reorder clears its deleted_at; a delete of
\* an id that is already deleted answers 404 (NotFound).
RemovalTerminal ==
    [][/\ \A i \in DOMAIN states :
             states[i].deleted_at => i \in DOMAIN states' /\ states'[i].deleted_at
       /\ \A i \in DOMAIN issues :
             issues[i].deleted_at => i \in DOMAIN issues' /\ issues'[i].deleted_at
       /\ (req'.op = "DeleteProjectStateByID" /\ req'.id \in DOMAIN states
              /\ states[req'.id].deleted_at) => resp'.status = 404
       /\ (req'.op = "DeleteIssue" /\ req'.id \in DOMAIN issues
              /\ issues[req'.id].deleted_at) => resp'.status = 404]_vars

\* The second delete of a state: refused, the state still deleted.
RemovalTerminalWitness ==
    /\ Handled("DeleteProjectStateByID", 404)
    /\ req.id \in DOMAIN states
    /\ states[req.id].project_id = req.project_id
    /\ states[req.id].deleted_at

\* C20: UpdateProjectStateByID changes nothing of a state but its name (and
\* updated_at): the sequence, project and deleted_at of every state stay, and
\* no other state and no issue is written.  UpdateIssueByID never changes the
\* sequence_id or the project_id of an issue and writes no other issue and no
\* state.
UpdatesKeepSequences ==
    [][/\ req'.op = "UpdateProjectStateByID" =>
             /\ issues' = issues
             /\ DOMAIN states' = DOMAIN states
             /\ \A i \in DOMAIN states :
                   /\ states'[i].sequence = states[i].sequence
                   /\ states'[i].project_id = states[i].project_id
                   /\ states'[i].deleted_at = states[i].deleted_at
                   /\ i # req'.id => states'[i] = states[i]
       /\ req'.op = "UpdateIssueByID" =>
             /\ states' = states
             /\ DOMAIN issues' = DOMAIN issues
             /\ \A i \in DOMAIN issues :
                   /\ issues'[i].sequence_id = issues[i].sequence_id
                   /\ issues'[i].project_id = issues[i].project_id
                   /\ issues'[i].deleted_at = issues[i].deleted_at
                   /\ i # req'.id => issues'[i] = issues[i]]_vars

\* A state renamed that is not the first of its project.
UpdatesKeepSequencesWitness ==
    /\ Handled("UpdateProjectStateByID", 200)
    /\ states[req.id].name = "renamed"
    /\ states[req.id].sequence > 1

\* C15: when a Save fails part-way through DeleteProjectStateByID (the soft
\* delete or a reset of a remaining state) or UpdateProjectStatesSequence, the
\* transaction is rolled back: the stored sequence and deleted_at of every
\* state are those of before the request.
NoPartialSequenceWrites ==
    [][resp'.status = 500 =>
          /\ DOMAIN states' = DOMAIN states
          /\ \A i \in DOMAIN states :
                /\ states'[i].sequence = states[i].sequence
                /\ states'[i].deleted_at = states[i].deleted_at]_vars

\* A delete whose soft delete was saved and whose reset of a remaining state
\* failed: the state is stored as not deleted.
NoPartialSequenceWritesWitness ==
    /\ req.op = "DeleteProjectStateByID" /\ resp.status = 500
    /\ Cardinality(saved) >= 2
    /\ ~states[req.id].deleted_at

\* C16: two requests on the same project that run at the same time leave the
\* table as if they had run one after the other.  Of create requests alone,
\* any serial order gives the k-th state of a project the sequence k.
ConcurrentCreatesSerial ==
    \A i \in DOMAIN states :
        states[i].sequence =
            Cardinality({j \in 1..i : states[j].project_id = states[i].project_id})

\* C17: a reorder list that names a soft-deleted state of the project is
\* answered 404 (NotFound).
ReorderRejectsRemovedId ==
    (/\ req.op = "UpdateProjectStatesSequence" /\ req.authorized
     /\ \E k \in DOMAIN req.list :
           /\ req.list[k] \in DOMAIN states
           /\ states[req.list[k]].project_id = req.project_id
           /\ states[req.list[k]].deleted_at)
    => resp.status = 404

\* C19: the compaction step writes only the states whose computed sequence
\* differs from the stored one.
CompactionWritesOnlyChanged ==
    [][(req'.op = "DeleteProjectStateByID" /\ resp'.status = 204) =>
          saved' \ {req'.id} =
              {i \in DOMAIN states : states'[i].sequence # states[i].sequence}]_vars

\* C19, as the handler behaves: the compaction step saves every remaining
\* non-deleted state of the project, and no other state.
CompactionWritesEveryRemaining ==
    Handled("DeleteProjectStateByID", 204) =>
        saved = {req.id} \cup LiveStates(states, req.project_id)

\* A delete in a dense project that saved a state placed before the deleted
\* one, whose sequence the compaction leaves as it was.
CompactionWritesEveryRemainingWitness ==
    /\ Handled("DeleteProjectStateByID", 204)
    /\ Dense(states, req.project_id)
    /\ \E i \in saved \ {req.id} :
          ~states[i].deleted_at /\ states[i].sequence < states[req.id].sequence

\* Some non-deleted issue has the state sid.
Referenced(sid) == \E i \in DOMAIN issues : issues[i].state_id = sid /\ ~issues[i].deleted_at

\* C21: a DeleteProjectStateByID whose target is the state of at least one
\* non-deleted issue is answered 409 (Conflict) and rolled back: the state's
\* deleted_at stays unset and every state's sequence stays as it was.
ReferencedStateNotDeleted ==
    [][(/\ req'.op = "DeleteProjectStateByID" /\ req'.authorized
        /\ req'.id \in DOMAIN states
        /\ states[req'.id].project_id = req'.project_id
        /\ ~states[req'.id].deleted_at
        /\ Referenced(req'.id))
       => /\ resp'.status = 409
          /\ done'.ended = 1
          /\ DOMAIN states' = DOMAIN states
          /\ ~states'[req'.id].deleted_at
          /\ \A i \in DOMAIN states : states'[i].sequence = states[i].sequence]_vars

\* A refused delete of a referenced state that has a later state behind it.
ReferencedStateNotDeletedWitness ==
    /\ Handled("DeleteProjectStateByID", 409)
    /\ Referenced(req.id)
    /\ \E i \in LiveStates(states, req.project_id) :
          states[i].sequence > states[req.id].sequence

\* C22: whatever CreateIssue, UpdateIssueByID, DeleteIssue, CreateProjectState
\* and DeleteProjectStateByID requests have been served, one at a time, the
\* state_id of every non-deleted issue is a non-deleted state of the issue's
\* own project.
StateReferenceIntegrity ==
    \A i \in DOMAIN issues :
        ~issues[i].deleted_at
        => /\ issues[i].state_id \in DOMAIN states
           /\ states[issues[i].state_id].project_id = issues[i].project_id
           /\ ~states[issues[i].state_id].deleted_at

\* A state deleted after the issue that referred to it was deleted, while
\* the project keeps a non-deleted issue.
StateReferenceIntegrityWitness ==
    /\ Handled("DeleteProjectStateByID", 204)
    /\ \E i \in DOMAIN issues : issues[i].deleted_at /\ issues[i].state_id = req.id
    /\ LiveIssues(issues, req.project_id) # {}

\* C23: a CreateIssue that fails after the issue row was inserted (the fetch
\* of the labels fails, or the requested state is no non-deleted state of the
\* project) is rolled back: no issue persists, and the next CreateIssue that
\* succeeds in the project gets the sequence_id the failed request computed.
CreateIssueAllOrNothing ==
    [][/\ (req'.op = "CreateIssue" /\ req'.authorized /\ resp'.status \in {404, 500})
          => /\ issues' = issues
             /\ NextSequenceID(issues', req'.project_id) = NextSequenceID(issues, req'.project_id)
             /\ resp'.status = 404 => done'.ended = 1
       /\ (/\ req.op = "CreateIssue" /\ req.authorized /\ resp.status \in {404, 500}
           /\ req'.op = "CreateIssue" /\ resp'.status = 201
           /\ req'.project_id = req.project_id)
          => issues'[resp'.id].sequence_id = NextSequenceID(issues, req.project_id)]_vars

\* A CreateIssue rolled back after its insert, in a project that has issues.
CreateIssueAllOrNothingWitness ==
    /\ req.op = "CreateIssue" /\ req.authorized
    /\ resp.status \in {404, 500} /\ done.ended = 1
    /\ LiveIssues(issues, req.project_id) # {}

\* C24: every path of CreateIssue, CreateProjectState, DeleteProjectStateByID
\* and UpdateProjectStatesSequence that starts a transaction ends it with
\* exactly one Commit or Rollback before the handler returns.
TransactionEndedOnce ==
    req.op \in {"CreateIssue", "CreateProjectState", "DeleteProjectStateByID",
                "UpdateProjectStatesSequence"}
    => done.ended = 1

\* C25: every path of UpdateIssueByID sends exactly one response, and does
\* nothing more on a transaction it has rolled back.
OneResponsePerRequest ==
    req.op = "UpdateIssueByID" => (done.sent = 1 /\ done.ended <= 1)

\* The membership rows of an email in a project, and the table with the
\* role of these rows changed.
MemberRows(tbl, p, email) ==
    {i \in DOMAIN tbl : tbl[i].project_id = p /\ tbl[i].email = email}

WithRole(tbl, rows, role) ==
    [k \in DOMAIN tbl |-> IF k \in rows THEN [tbl[k] EXCEPT !.role = role] ELSE tbl[k]]

\* C26: whatever AddSingleProjectMembers and AddORRemoveProjectMembers
\* requests have been served, one at a time, a project has at most one
\* membership row per email; adding a member's email with another role
\* changes the role of that row and inserts nothing, and
\* AddSingleProjectMembers with the member's own role answers 409 and changes
\* nothing.
MemberUniqueness ==
    [][/\ \A i, j \in DOMAIN members' :
              (/\ members'[i].project_id = members'[j].project_id
               /\ members'[i].email = members'[j].email) => i = j
       /\ (req'.op = "AddSingleProjectMembers" /\ req'.authorized)
          => LET existing == MemberRows(members, req'.project_id, req'.list[1])
             IN /\ (\E i \in existing : members[i].role = req'.list[2])
                   => (resp'.status = 409 /\ members' = members)
                /\ (existing # {} /\ \A i \in existing : members[i].role # req'.list[2])
                   => /\ resp'.status = 201
                      /\ members' = WithRole(members, existing, req'.list[2])
       /\ (/\ req'.op = "AddORRemoveProjectMembers" /\ resp'.status = 200
           /\ Len(req'.list) = 1 /\ req'.list[1].operation = "add"
           /\ Len(req'.list[1].emails) = 1)
          => LET existing == MemberRows(members, req'.project_id, req'.list[1].emails[1])
             IN existing # {}
                => members' = WithRole(members, existing, req'.list[1].role)]_vars

\* A batch that added the email of a member with another role, in a table
\* of two rows.
MemberUniquenessWitness ==
    /\ req.op = "AddORRemoveProjectMembers" /\ resp.status = 200
    /\ Len(req.list) = 2
    /\ req.list[1].operation = "add" /\ req.list[2].operation = "add"
    /\ req.list[1].emails = req.list[2].emails
    /\ req.list[1].role # req.list[2].role
    /\ Len(members) = 2
    /\ \E i \in MemberRows(members, req.project_id, req.list[2].emails[1]) :
          members[i].role = req.list[2].role

\* C27: when AddORRemoveProjectMembers meets an operation that is neither
\* "add" nor "remove", or a failing write, at any position of the batch,
\* nothing of the batch persists; a batch that only removes emails that are
\* no members succeeds and changes nothing, whether or not the store accepts
\* writes.
BatchAllOrNothing ==
    [][req'.op = "AddORRemoveProjectMembers"
       => /\ (\E k \in DOMAIN req'.list : req'.list[k].operation \notin {"add", "remove"})
             => resp'.status \in {400, 500}
          /\ resp'.status \in {400, 500} => members' = members
          /\ (\A k \in DOMAIN req'.list :
                 /\ req'.list[k].operation = "remove"
                 /\ \A j \in DOMAIN req'.list[k].emails :
                        MemberRows(members, req'.project_id, req'.list[k].emails[j]) = {})
             => (resp'.status = 200 /\ members' = members)]_vars

\* A batch refused at its second operation after its first one had added
\* an email that was no member: the email is no member afterwards.
BatchAllOrNothingWitness ==
    /\ req.op = "AddORRemoveProjectMembers" /\ resp.status = 400
    /\ Len(req.list) = 2 /\ req.list[1].operation = "add"
    /\ MemberRows(members, req.project_id, req.list[1].emails[1]) = {}
    /\ members # <<>>

\* C28: CreateIssueTimeEntry creates an entry only when the date of the
\* entry is not before the start date and not after the end date of its
\* issue, as the issue is at that time; with a date outside this range it
\* answers 400, rolls back and creates no entry.
TimeEntryInsideDateRange ==
    [][req'.op = "CreateIssueTimeEntry"
       => /\ entries' # entries
             => /\ resp'.status = 201
                /\ Len(req'.list) = 1
                /\ entries' = Append(entries, [project_id |-> req'.project_id,
                                               issue_id |-> req'.id,
                                               date |-> req'.list[1]])
                /\ req'.id \in DOMAIN issues
                /\ issues[req'.id].start_date <= req'.list[1]
                /\ req'.list[1] <= issues[req'.id].end_date
          /\ (/\ req'.authorized /\ Len(req'.list) = 1
              /\ req'.id \in DOMAIN issues
              /\ issues[req'.id].project_id = req'.project_id
              /\ ~issues[req'.id].deleted_at
              /\ (req'.list[1] < issues[req'.id].start_date
                  \/ req'.list[1] > issues[req'.id].end_date))
             => (resp'.status = 400 /\ done'.ended = 1 /\ entries' = entries)]_vars

\* An entry refused for a date after the end of its issue, which has an
\* entry on its last day and whose dates have been changed.
TimeEntryInsideDateRangeWitness ==
    /\ req.op = "CreateIssueTimeEntry" /\ resp.status = 400 /\ done.ended = 1
    /\ req.list[1] > issues[req.id].end_date
    /\ issues[req.id].end_date # EndDate
    /\ \E e \in DOMAIN entries :
          entries[e].issue_id = req.id /\ entries[e].date = issues[req.id].end_date

\* C29: ListProjectStates returns the non-deleted states of the project and
\* no other row, in strictly ascending order of their sequences; listed
\* right after a successful UpdateProjectStatesSequence whose list is a
\* permutation of the project's non-deleted states, the ids come in the
\* order of that list.
ListingReflectsOrdering ==
    [][(req'.op = "ListProjectStates" /\ resp'.status = 200)
       => /\ {listed'[k] : k \in DOMAIN listed'}
                = {i \in DOMAIN states : states[i].project_id = req'.project_id
                                          /\ ~states[i].deleted_at}
          /\ \A i, j \in DOMAIN listed' :
                i < j => states[listed'[i]].sequence < states[listed'[j]].sequence
          /\ (/\ req.op = "UpdateProjectStatesSequence" /\ resp.status = 200
              /\ req.project_id = req'.project_id
              /\ \A i, j \in DOMAIN req.list : i # j => req.list[i] # req.list[j]
              /\ {req.list[k] : k \in DOMAIN req.list}
                   = {i \in DOMAIN states : states[i].project_id = req.project_id
                                             /\ ~states[i].deleted_at})
             => listed' = req.list]_vars

====
